---- MODULE Spec2Model ----
(***************************************************************************)
(* VizLab backend (src/backend/app.py): the device registry built from the *)
(* data root, the list/resolve endpoints that read it, and the label       *)
(* derivation pipeline (find_metric_batch, select_probe_columns,           *)
(* derive_labels, make_signal).                                            *)
(*                                                                         *)
(* load_registry is modelled step by step (clear and listing, one device   *)
(* per step, end), so that requests and storage changes interleave with    *)
(* it; each request handler is one step that reads the registry as it is.  *)
(*                                                                         *)
(* Strings are sequences of one-character strings, so that startswith,     *)
(* substring search, lexicographic sorting and concatenation are computed  *)
(* character by character.                                                 *)
(***************************************************************************)
EXTENDS Integers, Sequences, FiniteSets, TLC

VARIABLES
    fs,               \* the directory tree under DATA_ROOT
    DEVICE_REGISTRY,  \* the module-level dict of src/backend/app.py
    pc,               \* position of the running load_registry ("idle" when none runs)
    todo,             \* directory entries load_registry has still to visit
    resp,             \* the request just served and its response
    hist,             \* history of rebuilds (pre-rebuild registry, storage at start, ...)
    changes,          \* number of storage changes so far
    input,            \* arguments of a direct call of a pipeline function
    output,           \* result of that call
    session_state,    \* st.session_state of the Derived Ratios page
    script            \* the running button handler of that page and its last build

vars == <<fs, DEVICE_REGISTRY, pc, todo, resp, hist, changes, input, output,
          session_state, script>>

-----------------------------------------------------------------------------
(* Strings *)

\* The characters used by the names of the model, in code point order.
CodePoints ==
    <<".", "0", "1", "2", ":", "D", "R", "W", "_",
      "a", "b", "c", "d", "e", "g", "i", "l", "m", "n", "o",
      "p", "r", "s", "t", "x", "y">>

Ord(ch) == CHOOSE i \in 1..Len(CodePoints) : CodePoints[i] = ch

Min(a, b) == IF a <= b THEN a ELSE b

\* Python's str < str: the first differing character decides, a proper prefix is smaller.
StrLess(a, b) ==
    \E k \in 0..Min(Len(a), Len(b)) :
        /\ \A j \in 1..k : a[j] = b[j]
        /\ \/ (k = Len(a) /\ k < Len(b))
           \/ (k < Len(a) /\ k < Len(b) /\ Ord(a[k + 1]) < Ord(b[k + 1]))

\* str.startswith
startswith(c, prefix) ==
    /\ Len(prefix) <= Len(c)
    /\ SubSeq(c, 1, Len(prefix)) = prefix

\* Python's `p in c` on strings
contains(c, p) ==
    \E i \in 0..(Len(c) - Len(p)) : SubSeq(c, i + 1, i + Len(p)) = p

Range(s) == {s[i] : i \in 1..Len(s)}

\* the orders in which a set can be enumerated (directory listing, glob, set iteration)
Enumerations(S) ==
    {s \in [1..Cardinality(S) -> S] : Range(s) = S}

RECURSIVE InsertSorted(_, _)
InsertSorted(x, s) ==
    IF s = <<>> THEN <<x>>
    ELSE IF StrLess(x, Head(s)) THEN <<x>> \o s
    ELSE <<Head(s)>> \o InsertSorted(x, Tail(s))

RECURSIVE SortFrom(_, _)
SortFrom(s, acc) ==
    IF s = <<>> THEN acc ELSE SortFrom(Tail(s), InsertSorted(Head(s), acc))

\* the list is returned as enumerated: what sorted() would be without sorting
unsorted(s) == s

\* Python's sorted() on a list of strings
sorted(s) == SortFrom(s, <<>>)

-----------------------------------------------------------------------------
(* Names *)

D1 == <<"D", "1">>
D2 == <<"D", "2">>
W1 == <<"W", "1">>
W2 == <<"W", "2">>
R1 == <<"R", "1">>
R2 == <<"R", "2">>
b1 == <<"b", "1">>
b2 == <<"b", "2">>
pycache == <<"_", "_", "p", "y", "c", "a", "c", "h", "e", "_", "_">>
csv == <<"c", "s", "v">>
txt == <<"t", "x", "t">>
dot == <<".">>
experiments_master_log ==
    <<"e", "x", "p", "e", "r", "i", "m", "e", "n", "t", "s", "_",
      "m", "a", "s", "t", "e", "r", "_", "l", "o", "g">>
index == <<"i", "n", "d", "e", "x">>
cycles == <<"c", "y", "c", "l", "e", "s">>
instructions == <<"i", "n", "s", "t", "r">>
pmc_ == <<"p", "m", "c", "_">>
core0 == <<"c", "o", "r", "e", "0">>
core1 == <<"c", "o", "r", "e", "1">>
pmc_core0 == pmc_ \o core0
pmc_core1 == pmc_ \o core1
pmc_x == pmc_ \o <<"x">>
x_core0 == <<"x", "_">> \o core0
EmptyStr == <<>>

\* Python's None (no sequence of characters equals it)
None == <<"None">>

-----------------------------------------------------------------------------
(* Results of calls: a value or a raised exception *)

Ok(v) == [exc |-> "none", val |-> v]
Raise(e) == [exc |-> e, val |-> <<>>]

-----------------------------------------------------------------------------
(* Device configs: the parsed device_config.json.                           *)
(* batches is the "batches" object in declared order; has_batches is FALSE  *)
(* for a config without that key; name is config["device"]["name"] or None. *)

Batch(n, prefix, probes, metrics) ==
    [name |-> n, probe_prefix |-> prefix, probes |-> probes, metrics |-> metrics]

Config(n, batches) == [name |-> n, has_batches |-> TRUE, batches |-> batches]

\* the spec's scenario config: one batch b1
CfgD1 == Config(D1, <<Batch(b1, pmc_, <<core0>>, <<cycles, instructions>>)>>)
\* no device name; cycles is declared by both batches
CfgDup == Config(None, <<Batch(b1, pmc_, <<core0>>, <<cycles>>),
                         Batch(b2, <<"x", "_">>, <<core0>>, <<instructions, cycles>>)>>)
\* empty device name, empty prefix, two probes
CfgAny == Config(EmptyStr, <<Batch(b1, EmptyStr, <<core1, <<"x">> >>, <<cycles>>)>>)
\* a batch without probes
CfgNoProbes == Config(D2, <<Batch(b2, pmc_, <<>>, <<instructions>>)>>)
\* a config file without the "batches" key
CfgBad == [name |-> D1, has_batches |-> FALSE, batches |-> <<>>]

-----------------------------------------------------------------------------
(* Tables: a parsed CSV; rows[i][j] is the cell of row i in column j *)

Table(columns, rows) == [columns |-> columns, rows |-> rows]

HasColumn(df, c) == \E j \in 1..Len(df.columns) : df.columns[j] = c
ColIndex(df, c) == CHOOSE j \in 1..Len(df.columns) : df.columns[j] = c
\* df[c].tolist()
Column(df, c) == [i \in 1..Len(df.rows) |-> df.rows[i][ColIndex(df, c)]]

-----------------------------------------------------------------------------
(* The label pipeline *)

RECURSIVE LastBatchWith(_, _, _)
LastBatchWith(batches, metric_name, i) ==
    IF i = 0 THEN Raise("ValueError")
    ELSE IF metric_name \in Range(batches[i].metrics) THEN Ok(batches[i].name)
    ELSE LastBatchWith(batches, metric_name, i - 1)

\* the last declaring batch wins instead of the first
find_metric_batch_last(device_cfg, metric_name) ==
    LastBatchWith(device_cfg.batches, metric_name, Len(device_cfg.batches))

RECURSIVE FirstBatchWith(_, _, _)
FirstBatchWith(batches, metric_name, i) ==
    IF i > Len(batches) THEN Raise("ValueError")
    ELSE IF metric_name \in Range(batches[i].metrics) THEN Ok(batches[i].name)
    ELSE FirstBatchWith(batches, metric_name, i + 1)

find_metric_batch(device_cfg, metric_name) ==
    FirstBatchWith(device_cfg.batches, metric_name, 1)

\* device_cfg["batches"][batch_name]
BatchNamed(device_cfg, batch_name) ==
    device_cfg.batches[CHOOSE i \in 1..Len(device_cfg.batches) :
                           device_cfg.batches[i].name = batch_name]

\* the list comprehension over df.columns, in column order
RECURSIVE FilterColumns(_, _, _)
FilterColumns(columns, prefix, probe_names) ==
    IF columns = <<>> THEN <<>>
    ELSE LET c == Head(columns)
             rest == FilterColumns(Tail(columns), prefix, probe_names)
         IN IF startswith(c, prefix) /\ (\E k \in 1..Len(probe_names) : contains(c, probe_names[k]))
            THEN <<c>> \o rest
            ELSE rest

RECURSIVE FilterColumnsOr(_, _, _)
FilterColumnsOr(columns, prefix, probe_names) ==
    IF columns = <<>> THEN <<>>
    ELSE LET c == Head(columns)
             rest == FilterColumnsOr(Tail(columns), prefix, probe_names)
         IN IF startswith(c, prefix) \/ (\E k \in 1..Len(probe_names) : contains(c, probe_names[k]))
            THEN <<c>> \o rest
            ELSE rest

\* a column is selected when it satisfies either condition
select_probe_columns_or(df, device_cfg, metric_name) ==
    LET found == find_metric_batch(device_cfg, metric_name)
    IN IF found.exc # "none" THEN found
       ELSE LET batch == BatchNamed(device_cfg, found.val)
            IN Ok(FilterColumnsOr(df.columns, batch.probe_prefix, batch.probes))

select_probe_columns(df, device_cfg, metric_name) ==
    LET found == find_metric_batch(device_cfg, metric_name)
    IN IF found.exc # "none" THEN found
       ELSE LET batch == BatchNamed(device_cfg, found.val)
            IN Ok(FilterColumns(df.columns, batch.probe_prefix, batch.probes))

\* (df[probe_cols] > 0).any(axis=1).astype(int).values
AnyPositive(df, probe_cols) ==
    [i \in 1..Len(df.rows) |->
        IF \E k \in 1..Len(probe_cols) : df.rows[i][ColIndex(df, probe_cols[k])] > 0
        THEN 1 ELSE 0]

\* the comparison is >= 0 instead of > 0
AnyNonNegative(df, probe_cols) ==
    [i \in 1..Len(df.rows) |->
        IF \E k \in 1..Len(probe_cols) : df.rows[i][ColIndex(df, probe_cols[k])] >= 0
        THEN 1 ELSE 0]

derive_labels_ge(df, device_cfg, metric_name) ==
    LET probe_cols == select_probe_columns(df, device_cfg, metric_name)
    IN IF probe_cols.exc # "none" THEN probe_cols
       ELSE IF probe_cols.val = <<>> THEN Ok([i \in 1..Len(df.rows) |-> 0])
       ELSE Ok(AnyNonNegative(df, probe_cols.val))

\* the fallback is sized by the number of columns instead of the number of rows
derive_labels_cols(df, device_cfg, metric_name) ==
    LET probe_cols == select_probe_columns(df, device_cfg, metric_name)
    IN IF probe_cols.exc # "none" THEN probe_cols
       ELSE IF probe_cols.val = <<>> THEN Ok([i \in 1..Len(df.columns) |-> 0])
       ELSE Ok(AnyPositive(df, probe_cols.val))

derive_labels(df, device_cfg, metric_name) ==
    LET probe_cols == select_probe_columns(df, device_cfg, metric_name)
    IN IF probe_cols.exc # "none" THEN probe_cols
       ELSE IF probe_cols.val = <<>> THEN Ok([i \in 1..Len(df.rows) |-> 0])
       ELSE Ok(AnyPositive(df, probe_cols.val))

\* f"{device}::{workload}::{run}::{metric}"
SignalId(device, workload, run, metric) ==
    device \o <<":", ":">> \o workload \o <<":", ":">> \o run \o <<":", ":">> \o metric

\* values is read from the table's second column, whichever metric is asked for
AssembleSignal_second_column(df, device_cfg, device, workload, run, metric, window_size) ==
    LET labels == derive_labels(df, device_cfg, metric)
    IN IF labels.exc # "none" THEN labels
       ELSE IF ~HasColumn(df, index) \/ ~HasColumn(df, metric) THEN Raise("KeyError")
       ELSE Ok([signal_id |-> SignalId(device, workload, run, metric),
                source |-> [device |-> device, workload |-> workload, run |-> run],
                metric |-> [name |-> metric, unit |-> "events"],
                time |-> [type |-> "index", values |-> Column(df, index)],
                values |-> Column(df, df.columns[2]),
                labels |-> [type |-> "attack", values |-> labels.val,
                            batch |-> find_metric_batch(device_cfg, metric).val],
                transform |-> [window_size |-> window_size, aggregation |-> "none"]])

\* the dict built by make_signal's return statement
AssembleSignal(df, device_cfg, device, workload, run, metric, window_size) ==
    LET labels == derive_labels(df, device_cfg, metric)
    IN IF labels.exc # "none" THEN labels
       ELSE IF ~HasColumn(df, index) \/ ~HasColumn(df, metric) THEN Raise("KeyError")
       ELSE Ok([signal_id |-> SignalId(device, workload, run, metric),
                source |-> [device |-> device, workload |-> workload, run |-> run],
                metric |-> [name |-> metric, unit |-> "events"],
                time |-> [type |-> "index", values |-> Column(df, index)],
                values |-> Column(df, metric),
                labels |-> [type |-> "attack", values |-> labels.val,
                            batch |-> find_metric_batch(device_cfg, metric).val],
                transform |-> [window_size |-> window_size, aggregation |-> "none"]])

\* the config's device name is never compared with the requested device
make_signal_nocheck(df, device_cfg, device, workload, run, metric, window_size) ==
    AssembleSignal(df, device_cfg, device, workload, run, metric, window_size)

make_signal(df, device_cfg, device, workload, run, metric, window_size) ==
    LET cfg_device == device_cfg.name
    IN IF cfg_device # None /\ cfg_device # EmptyStr /\ cfg_device # device
       THEN Raise("RuntimeError")
       ELSE AssembleSignal(df, device_cfg, device, workload, run, metric, window_size)

-----------------------------------------------------------------------------
(* Direct calls of the pipeline functions on bounded inputs *)

MaxRows == 2
Values == {-1, 0, 1}

Layouts ==
    { <<index, cycles, pmc_core0>>,
      <<index, pmc_core0, x_core0>>,
      <<index, cycles>>,
      <<cycles, pmc_x>> }

\* the index column counts the rows from 0, every other cell is drawn from Values
RowsOf(columns, n) ==
    {rows \in [1..n -> [1..Len(columns) -> Values \cup 0..(n - 1)]] :
        \A i \in 1..n : \A j \in 1..Len(columns) :
            IF columns[j] = index THEN rows[i][j] = i - 1 ELSE rows[i][j] \in Values}

Tables ==
    UNION {{Table(columns, rows) : rows \in RowsOf(columns, n)} :
              <<columns, n>> \in Layouts \X (0..MaxRows)}

PipelineConfigs == {CfgD1, CfgDup, CfgAny, CfgNoProbes}
PipelineMetrics == {cycles, instructions, pmc_x}
PipelineDevices == {D1, D2}

NoInput == [df |-> Table(<<>>, <<>>), device_cfg |-> CfgBad, device |-> EmptyStr,
            metric |-> EmptyStr]
NoOutput == [fn |-> "none", res |-> Raise("none")]

-----------------------------------------------------------------------------
(* Storage: the tree under DATA_ROOT.                                       *)
(* fs[d] is the entry named d of the data root: absent, a plain file, or a  *)
(* directory with an optional device_config.json and child entries; a child *)
(* is a plain file or a directory of files (name -> parsed table).          *)

DirNames == {D1, D2}

FileName(stem, ext) == stem \o dot \o ext

Node(kind, has_cfg, cfg, sub) == [kind |-> kind, has_cfg |-> has_cfg, cfg |-> cfg, sub |-> sub]
NoCfg == Config(None, <<>>)
Absent == Node("none", FALSE, NoCfg, <<>>)
PlainFile == Node("file", FALSE, NoCfg, <<>>)
Dir(files) == [kind |-> "dir", files |-> files]
ChildFile == [kind |-> "file", files |-> <<>>]

\* the spec's scenario table
TScenario ==
    Table(<<index, pmc_core0, cycles, instructions>>, << <<0, 5, 100, 50>>, <<1, 0, 200, 80>> >>)
\* probe columns of both batches of CfgDup, one row each way
TBoth ==
    Table(<<index, cycles, instructions, pmc_core0, x_core0>>,
          << <<0, 7, 1, 1, 0>>, <<1, 8, 2, 0, 1>>, <<2, 9, 3, 0, -1>> >>)
\* the scenario table when only its first row has been written
TShort == Table(<<index, pmc_core0, cycles, instructions>>, << <<0, 5, 100, 50>> >>)
\* an empty table
TEmpty == Table(<<index, cycles, instructions>>, <<>>)

\* a function given by its pairs
Pairs(ps) == [k \in {p[1] : p \in ps} |-> (CHOOSE p \in ps : p[1] = k)[2]]

\* workload W1 with run R1, the master log and a text file; a __pycache__ directory
SubScenario ==
    Pairs({ <<W1, Dir(Pairs({ <<FileName(R1, csv), TScenario>>,
                              <<FileName(experiments_master_log, csv), TScenario>>,
                              <<FileName(R2, txt), TEmpty>> }))>>,
            <<pycache, Dir(Pairs({ <<FileName(R1, csv), TEmpty>> }))>> })
\* the same files as SubScenario, the run R1 holding its first row only
SubShort ==
    Pairs({ <<W1, Dir(Pairs({ <<FileName(R1, csv), TShort>>,
                              <<FileName(experiments_master_log, csv), TScenario>>,
                              <<FileName(R2, txt), TEmpty>> }))>>,
            <<pycache, Dir(Pairs({ <<FileName(R1, csv), TEmpty>> }))>> })
\* workloads W1 (runs R2, R1) and W2 (no runs), and a plain file among them
SubTwo ==
    Pairs({ <<W1, Dir(Pairs({ <<FileName(R2, csv), TEmpty>>, <<FileName(R1, csv), TBoth>> }))>>,
            <<W2, Dir(<<>>)>>,
            <<R1, ChildFile>> })

DeviceNodes ==
    { Absent,
      PlainFile,
      Node("dir", FALSE, NoCfg, SubScenario),
      Node("dir", TRUE, CfgD1, SubScenario),
      Node("dir", TRUE, CfgDup, SubTwo),
      Node("dir", TRUE, CfgBad, SubTwo) }

-----------------------------------------------------------------------------
(* load_registry *)

\* Path.stem: the name without its last suffix
LastDot(name) ==
    IF \E i \in 2..Len(name) : name[i] = "."
    THEN CHOOSE i \in 2..Len(name) : name[i] = "." /\ \A j \in (i + 1)..Len(name) : name[j] # "."
    ELSE 0
stem(name) ==
    IF LastDot(name) = 0 \/ LastDot(name) = Len(name) THEN name
    ELSE SubSeq(name, 1, LastDot(name) - 1)

endswith(c, suffix) ==
    /\ Len(suffix) <= Len(c)
    /\ SubSeq(c, Len(c) - Len(suffix) + 1, Len(c)) = suffix

\* workload_dir.glob("*.csv"), as a set of file names
glob_csv(workload_dir) == {f \in DOMAIN workload_dir.files : endswith(f, dot \o csv)}

\* the master log is listed like any other run
RunFiles_all(workload_dir) == glob_csv(workload_dir)

\* the files the list comprehension keeps
RunFiles(workload_dir) ==
    {f \in glob_csv(workload_dir) : f # FileName(experiments_master_log, csv)}

\* the children of a device directory that become workloads
WorkloadDirs(node) ==
    {w \in DOMAIN node.sub : node.sub[w].kind = "dir" /\ w # pycache}

\* metrics.extend(batch["metrics"]) over the batches in declared order
RECURSIVE ExtendMetrics(_)
ExtendMetrics(batches) ==
    IF batches = <<>> THEN <<>> ELSE Head(batches).metrics \o ExtendMetrics(Tail(batches))

\* the orders in which glob may list the run files of each workload
GlobOrders(node) ==
    {g \in [WorkloadDirs(node) ->
              UNION {Enumerations(RunFiles(node.sub[w])) : w \in WorkloadDirs(node)}] :
        \A w \in WorkloadDirs(node) : g[w] \in Enumerations(RunFiles(node.sub[w]))}

\* a column name that no batch declares is registered as a metric
Entry_extra_metric(d, node, metric_order, glob_order) ==
    [path |-> d,
     config |-> node.cfg,
     metrics |-> sorted(metric_order \o <<pmc_core0>>),
     workloads |-> [w \in WorkloadDirs(node) |->
                      [runs |-> sorted([i \in 1..Len(glob_order[w]) |-> stem(glob_order[w][i])])]]]

\* only the metrics of the first batch are registered
Entry_first_batch(d, node, metric_order, glob_order) ==
    [path |-> d,
     config |-> node.cfg,
     metrics |-> sorted(SelectSeq(metric_order, LAMBDA m : m \in Range(node.cfg.batches[1].metrics))),
     workloads |-> [w \in WorkloadDirs(node) |->
                      [runs |-> sorted([i \in 1..Len(glob_order[w]) |-> stem(glob_order[w][i])])]]]

\* the registry entry of one device, given the glob and set iteration orders
Entry(d, node, metric_order, glob_order) ==
    [path |-> d,
     config |-> node.cfg,
     metrics |-> sorted(metric_order),
     workloads |-> [w \in WorkloadDirs(node) |->
                      [runs |-> sorted([i \in 1..Len(glob_order[w]) |-> stem(glob_order[w][i])])]]]

EmptyRegistry == <<>>

\* a config directory is accepted whether or not it has the config file
Accepts_any(node) == node.kind = "dir"

\* the two `continue` guards of the device loop
Accepts(node) == node.kind = "dir" /\ node.has_cfg

Put(reg, d, e) == [k \in DOMAIN reg \cup {d} |-> IF k = d THEN e ELSE reg[k]]

NoReg == [valid |-> FALSE, reg |-> EmptyRegistry]
\* no Signal is remembered
NoMemo == [valid |-> FALSE, req |-> <<>>, body |-> <<>>]
NoResp == [op |-> "none", req |-> <<>>, status |-> 0, detail |-> "none", body |-> <<>>,
           during |-> FALSE]

MaxChanges == 1

\* load_registry starts (at startup, or from reload_registry): DEVICE_REGISTRY.clear()
\* and the listing of the data root
StartLoad ==
    /\ pc = "idle"
    /\ hist.phase \in {"startup", "serving"}
    /\ hist.phase = "startup" => hist.outcome = "none"
    /\ DEVICE_REGISTRY' = EmptyRegistry
    /\ todo' = {d \in DirNames : fs[d].kind # "none"}
    /\ pc' = "loading"
    /\ hist' = [hist EXCEPT !.clean = TRUE, !.steady = TRUE, !.outcome = "running",
                            !.pre = DOMAIN DEVICE_REGISTRY, !.memo = NoMemo,
                            !.at = {d \in DirNames : fs[d].kind = "dir" /\ fs[d].has_cfg}]
    /\ resp' = NoResp
    /\ UNCHANGED <<fs, changes, input, output, session_state, script>>

\* one iteration of the device loop
LoadDevice(d) ==
    /\ pc = "loading"
    /\ d \in todo
    /\ resp' = NoResp
    /\ UNCHANGED <<fs, changes, input, output, session_state, script>>
    /\ IF ~Accepts(fs[d])
       THEN \* continue
            /\ todo' = todo \ {d}
            /\ UNCHANGED <<DEVICE_REGISTRY, pc, hist>>
       ELSE IF ~fs[d].cfg.has_batches
       THEN \* device_cfg["batches"] raises KeyError: load_registry ends here
            /\ todo' = {}
            /\ pc' = "idle"
            /\ hist' = [hist EXCEPT !.outcome = "failed",
                                    !.phase = IF @ = "startup" THEN "crashed" ELSE @,
                                    !.last = NoReg, !.prev = NoReg, !.memo = NoMemo]
            /\ UNCHANGED DEVICE_REGISTRY
       ELSE \E metric_order \in Enumerations(Range(ExtendMetrics(fs[d].cfg.batches))) :
            \E glob_order \in GlobOrders(fs[d]) :
                /\ DEVICE_REGISTRY' = Put(DEVICE_REGISTRY, d, Entry(d, fs[d], metric_order, glob_order))
                /\ todo' = todo \ {d}
                /\ UNCHANGED <<pc, hist>>

\* the loop is over: print(f"Loaded {len(DEVICE_REGISTRY)} devices")
FinishLoad ==
    /\ pc = "loading"
    /\ todo = {}
    /\ pc' = "idle"
    /\ hist' = [hist EXCEPT !.outcome = "done", !.phase = "serving", !.memo = NoMemo,
                            !.done = DOMAIN DEVICE_REGISTRY,
                            !.prev = IF hist.clean THEN hist.last ELSE NoReg,
                            !.last = IF hist.clean THEN [valid |-> TRUE, reg |-> DEVICE_REGISTRY]
                                     ELSE NoReg]
    /\ resp' = NoResp
    /\ UNCHANGED <<fs, DEVICE_REGISTRY, todo, changes, input, output, session_state, script>>

\* the operator or another program changes the tree under DATA_ROOT
ChangeStorage(d, node) ==
    /\ changes < MaxChanges
    /\ node # fs[d]
    /\ fs' = [fs EXCEPT ![d] = node]
    /\ changes' = changes + 1
    /\ hist' = [hist EXCEPT !.clean = FALSE, !.last = NoReg, !.prev = NoReg, !.memo = NoMemo,
                            !.steady = IF pc = "loading" THEN FALSE ELSE @]
    /\ resp' = NoResp
    /\ UNCHANGED <<DEVICE_REGISTRY, pc, todo, input, output, session_state, script>>

-----------------------------------------------------------------------------
(* The endpoints *)

HTTPException(status, detail) == [status |-> status, detail |-> detail, body |-> <<>>]
Returns(body) == [status |-> 200, detail |-> "none", body |-> body]
\* an exception that is not an HTTPException: FastAPI answers 500
InternalError(exc) == [status |-> 500, detail |-> exc, body |-> <<>>]

Request(device, workload, run, metric) ==
    [device |-> device, workload |-> workload, run |-> run, metric |-> metric, window_size |-> 1]

\* pd.read_csv(entry["path"] / workload / f"{run}.csv") on the current tree
read_csv(path, workload, run) ==
    LET node == fs[path]
    IN IF /\ node.kind = "dir"
          /\ workload \in DOMAIN node.sub
          /\ node.sub[workload].kind = "dir"
          /\ FileName(run, csv) \in DOMAIN node.sub[workload].files
       THEN Ok(node.sub[workload].files[FileName(run, csv)])
       ELSE Raise("FileNotFoundError")

\* a count of the Signals served so far leaks into transform.window_size
Resolve_counting(entry, req) ==
    LET df == read_csv(entry.path, req.workload, req.run)
    IN IF df.exc # "none" THEN df
       ELSE make_signal(df.val, entry.config, req.device, req.workload, req.run,
                        req.metric, req.window_size + (IF hist.memo.valid THEN 1 ELSE 0))

\* the CSV is loaded and make_signal called (the code after the four checks)
Resolve(entry, req) ==
    LET df == read_csv(entry.path, req.workload, req.run)
    IN IF df.exc # "none" THEN df
       ELSE make_signal(df.val, entry.config, req.device, req.workload, req.run,
                        req.metric, req.window_size)

\* the metric is checked before the workload and the run
get_signal_metric_first(req) ==
    IF req.device \notin DOMAIN DEVICE_REGISTRY
    THEN HTTPException(404, "Device not found")
    ELSE LET entry == DEVICE_REGISTRY[req.device]
         IN IF req.metric \notin Range(entry.metrics)
            THEN HTTPException(400, "Metric not valid for device")
            ELSE IF req.workload \notin DOMAIN entry.workloads
            THEN HTTPException(404, "Workload not found")
            ELSE IF req.run \notin Range(entry.workloads[req.workload].runs)
            THEN HTTPException(404, "Run not found")
            ELSE LET signal == Resolve(entry, req)
                 IN IF signal.exc # "none" THEN InternalError(signal.exc)
                    ELSE Returns(signal.val)

get_signal(req) ==
    IF req.device \notin DOMAIN DEVICE_REGISTRY
    THEN HTTPException(404, "Device not found")
    ELSE LET entry == DEVICE_REGISTRY[req.device]
         IN IF req.workload \notin DOMAIN entry.workloads
            THEN HTTPException(404, "Workload not found")
            ELSE IF req.run \notin Range(entry.workloads[req.workload].runs)
            THEN HTTPException(404, "Run not found")
            ELSE IF req.metric \notin Range(entry.metrics)
            THEN HTTPException(400, "Metric not valid for device")
            ELSE LET signal == Resolve(entry, req)
                 IN IF signal.exc # "none" THEN InternalError(signal.exc)
                    ELSE Returns(signal.val)

\* the body of get_signals' loop for one request: a failure, or the signal to append
SignalsStep(req) ==
    IF req.device \notin DOMAIN DEVICE_REGISTRY
    THEN HTTPException(404, "Device not found")
    ELSE LET entry == DEVICE_REGISTRY[req.device]
         IN IF req.workload \notin DOMAIN entry.workloads
            THEN HTTPException(404, "Workload not found")
            ELSE IF req.run \notin Range(entry.workloads[req.workload].runs)
            THEN HTTPException(404, "Run not found")
            ELSE IF req.metric \notin Range(entry.metrics)
            THEN HTTPException(400, "Metric not valid for device")
            ELSE LET signal == Resolve(entry, req)
                 IN IF signal.exc # "none" THEN InternalError(signal.exc)
                    ELSE Returns(signal.val)

\* get_signals: the loop over payload.requests from request i on, results so far
RECURSIVE SignalsLoop(_, _, _)
SignalsLoop(requests, i, results) ==
    IF i > Len(requests) THEN Returns([signals |-> results])
    ELSE LET step == SignalsStep(requests[i])
         IN IF step.status # 200 THEN step
            ELSE SignalsLoop(requests, i + 1, Append(results, step.body))

\* a request that fails is skipped and the Signals of the others are returned
RECURSIVE SignalsLoopSkipping(_, _, _)
SignalsLoopSkipping(requests, i, results) ==
    IF i > Len(requests) THEN Returns([signals |-> results])
    ELSE LET step == SignalsStep(requests[i])
         IN IF step.status # 200 THEN SignalsLoopSkipping(requests, i + 1, results)
            ELSE SignalsLoopSkipping(requests, i + 1, Append(results, step.body))

get_signals_skipping(payload) == SignalsLoopSkipping(payload, 1, <<>>)

get_signals(payload) == SignalsLoop(payload, 1, <<>>)

list_devices(keys) == Returns(sorted(keys))

list_metrics(device) ==
    IF device \notin DOMAIN DEVICE_REGISTRY THEN HTTPException(404, "Device not found")
    ELSE Returns(DEVICE_REGISTRY[device].metrics)

list_workloads(device, keys) ==
    IF device \notin DOMAIN DEVICE_REGISTRY THEN HTTPException(404, "Device not found")
    ELSE Returns(sorted(keys))

list_runs(device, workload) ==
    IF device \notin DOMAIN DEVICE_REGISTRY THEN HTTPException(404, "Device not found")
    ELSE LET workloads == DEVICE_REGISTRY[device].workloads
         IN IF workload \notin DOMAIN workloads THEN HTTPException(404, "Workload not found")
            ELSE Returns(workloads[workload].runs)

\* the inputs of the requests
ReqDevices == {D1, D2}
ReqWorkloads == {W1, W2}
ReqRuns == {R1, experiments_master_log}
ReqMetrics == {cycles, pmc_core0}
SignalRequests ==
    {Request(d, w, r, m) : <<d, w, r, m>> \in ReqDevices \X ReqWorkloads \X ReqRuns \X ReqMetrics}

MaxReqs == 2
BatchRequests ==
    { Request(D1, W1, R1, cycles),
      Request(D2, W1, R1, cycles),
      Request(D1, W2, experiments_master_log, pmc_core0) }
Payloads == UNION {[1..n -> BatchRequests] : n \in 0..MaxReqs}

\* the handler takes the device's entry out of the registry (pop) instead of reading it
Respond_pop(op, req, r) ==
    /\ hist.phase = "serving"
    /\ resp = NoResp
    /\ resp' = [op |-> op, req |-> req, status |-> r.status, detail |-> r.detail,
                body |-> r.body, during |-> pc = "loading"]
    /\ DEVICE_REGISTRY' =
          IF op = "get_signal"
          THEN [d \in DOMAIN DEVICE_REGISTRY \ {req.device} |-> DEVICE_REGISTRY[d]]
          ELSE DEVICE_REGISTRY
    /\ UNCHANGED <<fs, pc, todo, hist, changes, input, output, session_state, script>>

\* a handler runs and returns r; resp holds one response at a time, the one just produced
Respond(op, req, r) ==
    /\ hist.phase = "serving"
    /\ resp = NoResp
    /\ resp' = [op |-> op, req |-> req, status |-> r.status, detail |-> r.detail,
                body |-> r.body, during |-> pc = "loading"]
    /\ UNCHANGED <<fs, DEVICE_REGISTRY, pc, todo, hist, changes, input, output, session_state, script>>

ListDevices ==
    \E keys \in Enumerations(DOMAIN DEVICE_REGISTRY) :
        Respond("list_devices", <<>>, list_devices(keys))

ListMetrics(device) == Respond("list_metrics", <<device>>, list_metrics(device))

ListWorkloads(device) ==
    \E keys \in Enumerations(IF device \in DOMAIN DEVICE_REGISTRY
                             THEN DOMAIN DEVICE_REGISTRY[device].workloads ELSE {}) :
        Respond("list_workloads", <<device>>, list_workloads(device, keys))

ListRuns(device, workload) ==
    Respond("list_runs", <<device, workload>>, list_runs(device, workload))

GetSignal(req) == Respond("get_signal", req, get_signal(req))

GetSignals(payload) == Respond("get_signals", payload, get_signals(payload))

\* the response has been sent to the client
Deliver ==
    /\ resp # NoResp
    /\ resp' = NoResp
    /\ UNCHANGED <<fs, DEVICE_REGISTRY, pc, todo, hist, changes, input, output, session_state, script>>

-----------------------------------------------------------------------------
(* The ratio of two signals (src/frontend/pages/3_Derived_Ratios.py).       *)
(* A float is a record: a finite value is the reduced fraction num/den with *)
(* den > 0, the others are nan, inf and -inf.                               *)

Abs(n) == IF n < 0 THEN 0 - n ELSE n

RECURSIVE Gcd(_, _)
Gcd(a, b) == IF b = 0 THEN a ELSE Gcd(b, a % b)

nan == [kind |-> "nan", num |-> 0, den |-> 0]
inf == [kind |-> "inf", num |-> 0, den |-> 0]
neginf == [kind |-> "-inf", num |-> 0, den |-> 0]

\* the float n / d for integers n and d # 0
Fraction(n, d) ==
    LET g == Gcd(Abs(n), Abs(d))
    IN [kind |-> "num",
        num |-> (IF d < 0 THEN 0 - n ELSE n) \div g,
        den |-> Abs(d) \div g]

\* numpy's division of one element by another under errstate(divide='ignore', invalid='ignore')
true_divide(n, d) ==
    IF d # 0 THEN Fraction(n, d)
    ELSE IF n = 0 THEN nan
    ELSE IF n > 0 THEN inf
    ELSE neginf

isfinite(v) == v.kind = "num"

\* the shapes of two one-dimensional arrays broadcast together
Broadcastable(a, b) == Len(a) = Len(b) \/ Len(a) = 1 \/ Len(b) = 1
BroadcastLen(a, b) == IF Len(a) = 1 THEN Len(b) ELSE Len(a)
At(a, i) == IF Len(a) = 1 THEN a[1] ELSE a[i]

\* np.divide(num_values, den_values)
np_divide(a, b) == [i \in 1..BroadcastLen(a, b) |-> true_divide(At(a, i), At(b, i))]

\* the infinities of the division are kept
np_where_isfinite_kept(ratio_values) == ratio_values

\* np.where(np.isfinite(ratio_values), ratio_values, np.nan)
np_where_isfinite(ratio_values) ==
    [i \in 1..Len(ratio_values) |->
        IF isfinite(ratio_values[i]) THEN ratio_values[i] ELSE nan]

\* the labels are combined with logical_and
np_logical_and(a, b) ==
    [i \in 1..BroadcastLen(a, b) |-> IF At(a, i) # 0 /\ At(b, i) # 0 THEN 1 ELSE 0]

\* np.logical_or(num_labels, den_labels).astype(int).tolist()
np_logical_or(a, b) ==
    [i \in 1..BroadcastLen(a, b) |-> IF At(a, i) # 0 \/ At(b, i) # 0 THEN 1 ELSE 0]

\* lines 98-114 of build_ratio_data: the ratio values and the combined labels of two
\* fetched signals, or the ValueError numpy raises for shapes that do not broadcast
ComputeRatio(numerator_signal, denominator_signal) ==
    LET num_values == numerator_signal.values
        den_values == denominator_signal.values
        num_labels == numerator_signal.labels.values
        den_labels == denominator_signal.labels.values
    IN IF ~Broadcastable(num_values, den_values) \/ ~Broadcastable(num_labels, den_labels)
       THEN Raise("ValueError")
       ELSE Ok([x |-> numerator_signal.time.values,
                y |-> np_where_isfinite(np_divide(num_values, den_values)),
                labels |-> np_logical_or(num_labels, den_labels)])

\* a fetched signal, reduced to the fields build_ratio_data reads
FetchedSignal(values, labels) ==
    [time |-> [values |-> [i \in 1..Len(values) |-> i - 1]],
     values |-> values,
     labels |-> [values |-> labels]]

\* the signals of n samples with values in Values and labels in {0,1}
FetchedSignals ==
    UNION {{FetchedSignal(v, l) : <<v, l>> \in [1..n -> Values] \X [1..n -> {0, 1}]} :
              n \in 0..MaxRows}

-----------------------------------------------------------------------------
(* The Derived Ratios page (src/frontend/pages/3_Derived_Ratios.py).        *)
(* A search entry is kept by its id: its selection fields are rewritten     *)
(* from the widgets on every script run before they are read, so the        *)
(* selection is an input of the run.  A button handler runs in steps, one   *)
(* per request to the backend; the backend moves between the steps.         *)

\* `not v` for a selection
Falsy(v) == v = None \/ v = EmptyStr

Selection(device, workload, run, numerator, denominator) ==
    [device |-> device, workload |-> workload, run |-> run,
     numerator |-> numerator, denominator |-> denominator]

\* the widget values of one search entry
Selections ==
    { Selection(D1, W1, R1, cycles, instructions),
      Selection(D1, W1, R1, instructions, cycles),
      Selection(D1, W1, R1, cycles, cycles),
      Selection(D1, W1, R2, cycles, instructions),
      Selection(None, None, None, None, None) }

\* the arguments of a call of build_ratio_data
BuildArgs(entry_id, sel) ==
    [entry_id |-> entry_id, device_sel |-> sel.device, workload_sel |-> sel.workload,
     run_sel |-> sel.run, numerator_m |-> sel.numerator, denominator_m |-> sel.denominator]

\* the key leaves the order of the two metrics out
cache_key_unordered(a) ==
    <<a.device_sel, a.workload_sel, a.run_sel, {a.numerator_m, a.denominator_m}>>

cache_key(a) == <<a.device_sel, a.workload_sel, a.run_sel, a.numerator_m, a.denominator_m>>

ratio_name(a) == a.numerator_m \o <<" ", "/", " ">> \o a.denominator_m
display_name(a) ==
    a.device_sel \o <<" ", "|", " ">> \o a.workload_sel \o <<" ", "|", " ">> \o a.run_sel
        \o <<" ", "|", " ">> \o ratio_name(a)

\* the dict stored in ratio_cache
cached_ratio(a, numerator_signal, ratio) ==
    [name |-> ratio_name(a), display_name |-> display_name(a),
     x |-> ratio.x, y |-> ratio.y, labels |-> ratio.labels,
     device |-> a.device_sel, workload |-> a.workload_sel, run |-> a.run_sel,
     numerator |-> a.numerator_m, denominator |-> a.denominator_m]

\* the dict build_ratio_data returns
ratio_data(a, cached) ==
    [entry_id |-> a.entry_id, name |-> cached.name, display_name |-> display_name(a),
     x |-> cached.x, y |-> cached.y, labels |-> cached.labels,
     device |-> a.device_sel, workload |-> a.workload_sel, run |-> a.run_sel,
     numerator |-> a.numerator_m, denominator |-> a.denominator_m]

\* fetch_signal: GET /signal; the Signal, or no Signal when api_get reports the error
\* and stops the script (a backend that is not serving refuses the connection)
fetch_signal(device, workload, run, metric) ==
    IF hist.phase # "serving" THEN Raise("StopException")
    ELSE LET r == get_signal(Request(device, workload, run, metric))
         IN IF r.status = 200 THEN Ok(r.body) ELSE Raise("StopException")

\* an optional value: None, or the value in a one-element tuple
Nothing == <<>>
Some(v) == <<v>>

\* what the last call of build_ratio_data did: its arguments, the number of signals it
\* fetched, whether it looked its key up in ratio_cache, whether it returned and what
NoLog == [args |-> Nothing, fetched |-> 0, read |-> FALSE, returned |-> FALSE, ret |-> Nothing]
Log(a, fetched, read, returned, ret) ==
    [args |-> Some(a), fetched |-> fetched, read |-> read, returned |-> returned, ret |-> ret]

\* handler: the button whose handler runs ("none" when the script is idle);
\* queue: the calls of build_ratio_data it has still to make;
\* new_ratios: the dict "Plot ALL ratios" fills;
\* numerator_signal: the numerator of the call being made, once fetched;
\* log: the last call of build_ratio_data in the last run of the script;
\* first: for each key ever inserted in ratio_cache of this session, what was inserted
NoScript == [handler |-> "none", queue |-> <<>>, new_ratios |-> <<>>,
             numerator_signal |-> Nothing, log |-> NoLog, first |-> <<>>]

\* st.session_state after the first run of the script
NewSessionState ==
    [ratios |-> <<>>, ratio_entry_counter |-> 1, ratio_cache |-> <<>>,
     ratio_search_entries |-> << [id |-> 0] >>]

-----------------------------------------------------------------------------
(* The specification of the server *)

\* phase: "startup" until the first load_registry has returned, then "serving"
\*        ("crashed" when the startup load raised and the application did not start);
\* outcome: how the last load_registry ended ("running" while it runs);
\* pre: the devices registered when the last load_registry started;
\* done: the devices the last load_registry that reached its end registered;
\* at: the directories holding a device_config.json when it started;
\* steady: the tree did not change while it ran; clean: nor since;
\* last, prev: the registries the last two completed rebuilds left, while the tree has
\*        not changed since the earlier one started;
\* memo: a Signal a client received, kept until load_registry starts or ends or the
\*        tree changes
NoHist == [phase |-> "startup", outcome |-> "none", clean |-> TRUE, steady |-> TRUE,
           pre |-> {}, done |-> {}, at |-> {}, last |-> NoReg, prev |-> NoReg, memo |-> NoMemo]

Init ==
    /\ fs \in [DirNames -> DeviceNodes]
    /\ DEVICE_REGISTRY = EmptyRegistry
    /\ pc = "idle"
    /\ todo = {}
    /\ resp = NoResp
    /\ hist = NoHist
    /\ changes = 0
    /\ input = NoInput
    /\ output = NoOutput
    /\ session_state = NewSessionState
    /\ script = NoScript

Next ==
    \/ StartLoad
    \/ \E d \in DirNames : LoadDevice(d)
    \/ FinishLoad
    \/ \E d \in DirNames : \E node \in DeviceNodes : ChangeStorage(d, node)
    \/ ListDevices
    \/ \E d \in ReqDevices : ListMetrics(d)
    \/ \E d \in ReqDevices : ListWorkloads(d)
    \/ \E d \in ReqDevices : \E w \in ReqWorkloads : ListRuns(d, w)
    \/ \E req \in SignalRequests : GetSignal(req)
    \/ \E payload \in Payloads : GetSignals(payload)
    \/ Deliver

Spec == Init /\ [][Next]_vars

-----------------------------------------------------------------------------
(* The server with a client that keeps a Signal it received and asks again *)

\* the client keeps the Signal of the response instead of dropping it
Remember ==
    /\ resp.op = "get_signal"
    /\ resp.status = 200
    /\ ~hist.memo.valid
    /\ hist' = [hist EXCEPT !.memo = [valid |-> TRUE, req |-> resp.req, body |-> resp.body]]
    /\ resp' = NoResp
    /\ UNCHANGED <<fs, DEVICE_REGISTRY, pc, todo, changes, input, output, session_state, script>>

NextRepeat ==
    \/ StartLoad
    \/ \E d \in DirNames : LoadDevice(d)
    \/ FinishLoad
    \/ \E d \in DirNames : \E node \in DeviceNodes : ChangeStorage(d, node)
    \/ ListDevices
    \/ \E d \in ReqDevices : ListMetrics(d)
    \/ \E d \in ReqDevices : \E w \in ReqWorkloads : ListRuns(d, w)
    \/ \E req \in SignalRequests : GetSignal(req)
    \/ \E req \in BatchRequests : GetSignals(<<req>>)
    \/ Deliver
    \/ Remember

SpecRepeat == Init /\ [][NextRepeat]_vars

-----------------------------------------------------------------------------
(* The handlers of the Derived Ratios page *)

\* how a part of build_ratio_data ends: it returns ret ("return"), it waits for the
\* second signal ("pending"), or api_get has stopped the script ("stop")
Outcome(kind, ret, ratio_cache, numerator_signal, log) ==
    [kind |-> kind, ret |-> ret, ratio_cache |-> ratio_cache,
     numerator_signal |-> numerator_signal, log |-> log]

\* the metrics are not compared
build_ratio_data_first_same(a, ratio_cache) ==
    IF Falsy(a.device_sel) \/ Falsy(a.workload_sel) \/ Falsy(a.run_sel)
    THEN Outcome("return", Nothing, ratio_cache, Nothing, Log(a, 0, FALSE, TRUE, Nothing))
    ELSE IF cache_key(a) \in DOMAIN ratio_cache
    THEN LET ret == Some(ratio_data(a, ratio_cache[cache_key(a)]))
         IN Outcome("return", ret, ratio_cache, Nothing, Log(a, 0, TRUE, TRUE, ret))
    ELSE LET numerator_signal ==
                 fetch_signal(a.device_sel, a.workload_sel, a.run_sel, a.numerator_m)
         IN IF numerator_signal.exc # "none"
            THEN Outcome("stop", Nothing, ratio_cache, Nothing, Log(a, 1, TRUE, FALSE, Nothing))
            ELSE Outcome("pending", Nothing, ratio_cache, Some(numerator_signal.val),
                         Log(a, 1, TRUE, FALSE, Nothing))

\* build_ratio_data up to the answer to its first request (lines 58-93)
build_ratio_data_first(a, ratio_cache) ==
    IF Falsy(a.device_sel) \/ Falsy(a.workload_sel) \/ Falsy(a.run_sel)
    THEN Outcome("return", Nothing, ratio_cache, Nothing, Log(a, 0, FALSE, TRUE, Nothing))
    ELSE IF a.numerator_m = a.denominator_m
    THEN Outcome("return", Nothing, ratio_cache, Nothing, Log(a, 0, FALSE, TRUE, Nothing))
    ELSE IF cache_key(a) \in DOMAIN ratio_cache
    THEN LET ret == Some(ratio_data(a, ratio_cache[cache_key(a)]))
         IN Outcome("return", ret, ratio_cache, Nothing, Log(a, 0, TRUE, TRUE, ret))
    ELSE LET numerator_signal ==
                 fetch_signal(a.device_sel, a.workload_sel, a.run_sel, a.numerator_m)
         IN IF numerator_signal.exc # "none"
            THEN Outcome("stop", Nothing, ratio_cache, Nothing, Log(a, 1, TRUE, FALSE, Nothing))
            ELSE Outcome("pending", Nothing, ratio_cache, Some(numerator_signal.val),
                         Log(a, 1, TRUE, FALSE, Nothing))

\* build_ratio_data from its second request on (lines 94-152)
build_ratio_data_second(a, numerator_signal, ratio_cache) ==
    LET denominator_signal ==
            fetch_signal(a.device_sel, a.workload_sel, a.run_sel, a.denominator_m)
    IN IF denominator_signal.exc # "none"
       THEN Outcome("stop", Nothing, ratio_cache, Nothing, Log(a, 2, TRUE, FALSE, Nothing))
       ELSE LET ratio == ComputeRatio(numerator_signal, denominator_signal.val)
            IN IF ratio.exc # "none"
               THEN \* except Exception: st.error, return None
                    Outcome("return", Nothing, ratio_cache, Nothing,
                            Log(a, 2, TRUE, TRUE, Nothing))
               ELSE LET c == cached_ratio(a, numerator_signal, ratio.val)
                        ret == Some(ratio_data(a, c))
                    IN Outcome("return", ret, Put(ratio_cache, cache_key(a), c), Nothing,
                               Log(a, 2, TRUE, TRUE, ret))

Backend == <<fs, DEVICE_REGISTRY, pc, todo, resp, hist, changes, input, output>>

MaxEntries == 2

\* the handler is over: st.rerun(), or the end of the script
Idle(log, first) == [NoScript EXCEPT !.log = log, !.first = first]

\* the keys inserted for the first time, with what was inserted
FirstOf(first, ratio_cache) ==
    [k \in DOMAIN first \cup DOMAIN ratio_cache |->
        IF k \in DOMAIN first THEN first[k] ELSE ratio_cache[k]]

\* "Plot this ratio" of the entry at ratio_idx is clicked with the widgets showing sel
PlotThisRatio(ratio_idx, sel) ==
    /\ script.handler = "none"
    /\ ratio_idx \in 1..Len(session_state.ratio_search_entries)
    /\ script' = [script EXCEPT
                    !.handler = "plot_this",
                    !.queue = << BuildArgs(session_state.ratio_search_entries[ratio_idx].id, sel) >>,
                    !.new_ratios = <<>>,
                    !.numerator_signal = Nothing,
                    !.log = NoLog]
    /\ UNCHANGED session_state
    /\ UNCHANGED Backend

\* the calls "Plot ALL ratios" makes: one for each entry whose five fields are all set
RECURSIVE PlotAllQueue(_, _)
PlotAllQueue(entries, widgets) ==
    IF entries = <<>> THEN <<>>
    ELSE LET sel == Head(widgets)
             rest == PlotAllQueue(Tail(entries), Tail(widgets))
         IN IF \/ Falsy(sel.device) \/ Falsy(sel.workload) \/ Falsy(sel.run)
               \/ Falsy(sel.numerator) \/ Falsy(sel.denominator)
            THEN rest
            ELSE << BuildArgs(Head(entries).id, sel) >> \o rest

\* "Plot ALL ratios" is clicked with the widgets of the entries showing widgets
PlotAllRatios(widgets) ==
    /\ script.handler = "none"
    /\ Len(widgets) = Len(session_state.ratio_search_entries)
    /\ LET queue == PlotAllQueue(session_state.ratio_search_entries, widgets)
       IN IF queue = <<>>
          THEN /\ session_state' = [session_state EXCEPT !.ratios = <<>>]
               /\ script' = Idle(NoLog, script.first)
          ELSE /\ script' = [script EXCEPT !.handler = "plot_all", !.queue = queue,
                                           !.new_ratios = <<>>,
                                           !.numerator_signal = Nothing,
                                           !.log = NoLog]
               /\ UNCHANGED session_state
    /\ UNCHANGED Backend

\* the running handler goes on to its next request to the backend, or to its end
Step ==
    /\ script.handler # "none"
    /\ \E a \in {Head(script.queue)} :
       \E o \in {IF script.numerator_signal = Nothing
                THEN build_ratio_data_first(a, session_state.ratio_cache)
                ELSE build_ratio_data_second(a, script.numerator_signal[1],
                                             session_state.ratio_cache)} :
       \E first \in {FirstOf(script.first, o.ratio_cache)} :
          CASE o.kind = "pending" ->
                 /\ script' = [script EXCEPT !.numerator_signal = o.numerator_signal,
                                             !.log = o.log]
                 /\ UNCHANGED session_state
            [] o.kind = "stop" ->
                 /\ script' = Idle(o.log, script.first)
                 /\ UNCHANGED session_state
            [] o.kind = "return" /\ script.handler = "plot_this" ->
                 \* if ratio_data: st.session_state.ratios[entry["id"]] = ratio_data
                 /\ session_state' =
                       [session_state EXCEPT
                          !.ratio_cache = o.ratio_cache,
                          !.ratios = IF o.ret = Nothing THEN @
                                     ELSE Put(@, a.entry_id, o.ret[1])]
                 /\ script' = Idle(o.log, first)
            [] o.kind = "return" /\ script.handler = "plot_all" ->
                 LET new_ratios == IF o.ret = Nothing THEN script.new_ratios
                                   ELSE Put(script.new_ratios, a.entry_id, o.ret[1])
                 IN IF Tail(script.queue) = <<>>
                    THEN \* st.session_state.ratios = new_ratios
                         /\ session_state' = [session_state EXCEPT
                                                !.ratio_cache = o.ratio_cache,
                                                !.ratios = new_ratios]
                         /\ script' = Idle(o.log, first)
                    ELSE /\ session_state' = [session_state EXCEPT
                                                !.ratio_cache = o.ratio_cache]
                         /\ script' = [script EXCEPT !.queue = Tail(@),
                                                     !.new_ratios = new_ratios,
                                                     !.numerator_signal = Nothing,
                                                     !.log = o.log, !.first = first]
    /\ UNCHANGED Backend

\* a new entry is appended under the next id
AppendEntry ==
    /\ script.handler = "none"
    /\ session_state.ratio_entry_counter < MaxEntries
    /\ session_state' =
          [session_state EXCEPT
             !.ratio_entry_counter = @ + 1,
             !.ratio_search_entries = Append(@, [id |-> session_state.ratio_entry_counter])]
    /\ script' = Idle(NoLog, script.first)
    /\ UNCHANGED Backend

\* "Duplicate search" of the entry at ratio_idx
DuplicateSearch(ratio_idx) ==
    /\ ratio_idx \in 1..Len(session_state.ratio_search_entries)
    /\ AppendEntry

\* "+ Add another ratio input"
AddAnotherRatioInput == AppendEntry

Remove(seq, i) == SubSeq(seq, 1, i - 1) \o SubSeq(seq, i + 1, Len(seq))
Del(f, k) == [j \in DOMAIN f \ {k} |-> f[j]]

\* "Delete search" of the entry at ratio_idx: the entry and its plot go, or the only
\* entry is reset
DeleteSearch(ratio_idx) ==
    /\ script.handler = "none"
    /\ ratio_idx \in 1..Len(session_state.ratio_search_entries)
    /\ IF Len(session_state.ratio_search_entries) > 1
       THEN session_state' =
               [session_state EXCEPT
                  !.ratio_search_entries = Remove(@, ratio_idx),
                  !.ratios = Del(@, session_state.ratio_search_entries[ratio_idx].id)]
       ELSE UNCHANGED session_state
    /\ script' = Idle(NoLog, script.first)
    /\ UNCHANGED Backend

\* "Clear all plots" empties the cache with the plots
ClearAllPlots_cache ==
    /\ script.handler = "none"
    /\ DOMAIN session_state.ratios # {}
    /\ session_state' = [session_state EXCEPT !.ratios = <<>>, !.ratio_cache = <<>>]
    /\ script' = Idle(NoLog, script.first)
    /\ UNCHANGED Backend

\* "Clear all plots", shown while a ratio is plotted
ClearAllPlots ==
    /\ script.handler = "none"
    /\ DOMAIN session_state.ratios # {}
    /\ session_state' = [session_state EXCEPT !.ratios = <<>>]
    /\ script' = Idle(NoLog, script.first)
    /\ UNCHANGED Backend

\* the page is opened in a new session: st.session_state starts empty
NewSession ==
    /\ session_state # NewSessionState
    /\ session_state' = NewSessionState
    /\ script' = NoScript
    /\ UNCHANGED Backend

\* the nodes the data directory of D1 changes between
RatioNodes ==
    { Node("dir", TRUE, CfgD1, SubScenario), Node("dir", TRUE, CfgD1, SubShort),
      Node("dir", TRUE, CfgDup, SubTwo), Absent }

\* the data directory of D1 when the page is opened: the run R1 is complete, or is
\* still being written
RatioStart == { Node("dir", TRUE, CfgD1, SubScenario), Node("dir", TRUE, CfgD1, SubShort) }

InitRatio ==
    /\ fs \in {[d \in DirNames |-> IF d = D1 THEN node ELSE Absent] : node \in RatioStart}
    /\ DEVICE_REGISTRY = EmptyRegistry
    /\ pc = "idle"
    /\ todo = {}
    /\ resp = NoResp
    /\ hist = NoHist
    /\ changes = 0
    /\ input = NoInput
    /\ output = NoOutput
    /\ session_state = NewSessionState
    /\ script = NoScript

\* one ratio input, while the data directory changes and the backend reloads
NextRatio ==
    \/ StartLoad
    \/ \E d \in DirNames : LoadDevice(d)
    \/ FinishLoad
    \/ \E node \in RatioNodes : ChangeStorage(D1, node)
    \/ \E sel \in Selections : PlotThisRatio(1, sel)
    \/ \E sel \in Selections : PlotAllRatios(<<sel>>)
    \/ Step
    \/ ClearAllPlots
    \/ NewSession

SpecRatio == InitRatio /\ [][NextRatio]_vars

\* every button of the page, while the backend reloads an unchanged data directory
NextSession ==
    \/ StartLoad
    \/ \E d \in DirNames : LoadDevice(d)
    \/ FinishLoad
    \/ \E ratio_idx \in 1..MaxEntries : \E sel \in Selections : PlotThisRatio(ratio_idx, sel)
    \/ \E n \in 1..MaxEntries : \E widgets \in [1..n -> Selections] : PlotAllRatios(widgets)
    \/ Step
    \/ \E ratio_idx \in 1..MaxEntries : DuplicateSearch(ratio_idx)
    \/ AddAnotherRatioInput
    \/ \E ratio_idx \in 1..MaxEntries : DeleteSearch(ratio_idx)
    \/ ClearAllPlots
    \/ NewSession

SpecSession == InitRatio /\ [][NextSession]_vars


-----------------------------------------------------------------------------
(* The specification of the label pipeline: each function applied to every  *)
(* table, config, device and metric of the bounded input sets               *)

Inputs ==
    {[df |-> df, device_cfg |-> cfg, device |-> d, metric |-> m] :
        <<df, cfg, d, m>> \in Tables \X PipelineConfigs \X PipelineDevices \X PipelineMetrics}

InitPipeline ==
    /\ fs = [d \in DirNames |-> Absent]
    /\ DEVICE_REGISTRY = EmptyRegistry
    /\ pc = "idle"
    /\ todo = {}
    /\ resp = NoResp
    /\ hist = NoHist
    /\ changes = 0
    /\ input \in Inputs
    /\ output = NoOutput
    /\ session_state = NewSessionState
    /\ script = NoScript

Call(fn, res) ==
    /\ output' = [fn |-> fn, res |-> res]
    /\ UNCHANGED <<fs, DEVICE_REGISTRY, pc, todo, resp, hist, changes, input, session_state, script>>

CallFindMetricBatch ==
    Call("find_metric_batch", find_metric_batch(input.device_cfg, input.metric))

CallSelectProbeColumns ==
    Call("select_probe_columns", select_probe_columns(input.df, input.device_cfg, input.metric))

CallDeriveLabels ==
    Call("derive_labels", derive_labels(input.df, input.device_cfg, input.metric))

CallMakeSignal ==
    Call("make_signal", make_signal(input.df, input.device_cfg, input.device, W1, R1,
                                    input.metric, 1))

NextPipeline ==
    \/ CallFindMetricBatch
    \/ CallSelectProbeColumns
    \/ CallDeriveLabels
    \/ CallMakeSignal

SpecPipeline == InitPipeline /\ [][NextPipeline]_vars

-----------------------------------------------------------------------------
(* The ratio computation applied to every pair of bounded signals *)

InitCalc ==
    /\ fs = [d \in DirNames |-> Absent]
    /\ DEVICE_REGISTRY = EmptyRegistry
    /\ pc = "idle"
    /\ todo = {}
    /\ resp = NoResp
    /\ hist = NoHist
    /\ changes = 0
    /\ input \in [numerator_signal : FetchedSignals, denominator_signal : FetchedSignals]
    /\ output = NoOutput
    /\ session_state = NewSessionState
    /\ script = NoScript

CallComputeRatio ==
    /\ output.fn = "none"
    /\ Call("ComputeRatio", ComputeRatio(input.numerator_signal, input.denominator_signal))

SpecCalc == InitCalc /\ [][CallComputeRatio]_vars

-----------------------------------------------------------------------------
(* make_signal applied to two requests whose device, workload and run are   *)
(* names a directory tree can hold, "::" included                           *)

\* directory and file names, with and without the delimiter of signal_id
IdNames == {D1, W1, R1, D1 \o <<":", ":">> \o W1}

IdRequests ==
    {Request(d, w, r, m) : <<d, w, r, m>> \in IdNames \X IdNames \X IdNames \X {cycles, instructions}}

InitIds ==
    /\ fs = [d \in DirNames |-> Absent]
    /\ DEVICE_REGISTRY = EmptyRegistry
    /\ pc = "idle"
    /\ todo = {}
    /\ resp = NoResp
    /\ hist = NoHist
    /\ changes = 0
    /\ input \in [first : IdRequests, second : IdRequests]
    /\ output = NoOutput
    /\ session_state = NewSessionState
    /\ script = NoScript

\* both requests are resolved on the scenario table under a config that names no device
CallMakeSignalTwice ==
    /\ output.fn = "none"
    /\ Call("make_signal_twice",
            [first |-> make_signal(TScenario, CfgDup, input.first.device, input.first.workload,
                                   input.first.run, input.first.metric, input.first.window_size),
             second |-> make_signal(TScenario, CfgDup, input.second.device, input.second.workload,
                                    input.second.run, input.second.metric,
                                    input.second.window_size)])

SpecIds == InitIds /\ [][CallMakeSignalTwice]_vars

-----------------------------------------------------------------------------
(* The attack shading of a plot, applied to every bounded label sequence    *)
(* (render_signal_plot of src/frontend/app.py and of                        *)
(* src/frontend/pages/1_Single_Signal.py, and the ratio plot of             *)
(* src/frontend/pages/3_Derived_Ratios.py: the three scans are the same)    *)

MaxLabels == 5

\* the sequences the scan receives: labels of 0 and 1
LabelSequences == UNION {[1..n -> {0, 1}] : n \in 0..MaxLabels}

\* fig.add_vrect(x0=..., x1=..., fillcolor="red", opacity=0.15, layer="below", line_width=0)
add_vrect(rects, x0, x1) == Append(rects, [x0 |-> x0, x1 |-> x1])

\* for i, v in enumerate(labels): ..., then the test of in_attack after the loop;
\* i counts from 0, rects are the rectangles added to the figure so far
RECURSIVE ScanLoop(_, _, _, _, _)
ScanLoop(labels, i, in_attack, start, rects) ==
    IF i = Len(labels)
    THEN IF in_attack THEN add_vrect(rects, start, Len(labels)) ELSE rects
    ELSE LET v == labels[i + 1]
         IN IF v = 1 /\ ~in_attack THEN ScanLoop(labels, i + 1, TRUE, i, rects)
            ELSE IF v = 0 /\ in_attack
            THEN ScanLoop(labels, i + 1, FALSE, start, add_vrect(rects, start, i))
            ELSE ScanLoop(labels, i + 1, in_attack, start, rects)

\* a run that reaches the end of the labels is not closed
attack_shading_open(labels) ==
    SelectSeq(ScanLoop(labels, 0, FALSE, None, <<>>), LAMBDA r : r.x1 # Len(labels))

\* in_attack = False; start = None; the loop; the closing test
attack_shading(labels) == ScanLoop(labels, 0, FALSE, None, <<>>)

InitShading ==
    /\ fs = [d \in DirNames |-> Absent]
    /\ DEVICE_REGISTRY = EmptyRegistry
    /\ pc = "idle"
    /\ todo = {}
    /\ resp = NoResp
    /\ hist = NoHist
    /\ changes = 0
    /\ input \in [labels : LabelSequences]
    /\ output = NoOutput
    /\ session_state = NewSessionState
    /\ script = NoScript

\* render_signal_plot of the main page shades signal["labels"]["values"]
RenderSignalPlot == Call("render_signal_plot", attack_shading(input.labels))

\* render_signal_plot of the Single Signal page does the same
RenderSingleSignal == Call("single_signal", attack_shading(input.labels))

\* the Derived Ratios page shades ratio["labels"]
RenderRatioPlot == Call("ratio_plot", attack_shading(input.labels))

NextShading ==
    \/ RenderSignalPlot
    \/ RenderSingleSignal
    \/ RenderRatioPlot

SpecShading == InitShading /\ [][NextShading]_vars

-----------------------------------------------------------------------------
(* Properties of the label pipeline (checked under SpecPipeline) *)

\* the statement's notions, written without the model's operators
IsPrefixOf(p, c) == \E k \in 0..Len(c) : SubSeq(c, 1, k) = p
IsSubstringOf(p, c) == \E i \in 1..(Len(c) + 1) : \E j \in (i - 1)..Len(c) : SubSeq(c, i, j) = p
Declares(cfg, m) == \E i \in 1..Len(cfg.batches) : m \in Range(cfg.batches[i].metrics)
\* the first batch, in declared order, whose metrics contain m
FirstDeclaring(cfg, m) ==
    cfg.batches[CHOOSE i \in 1..Len(cfg.batches) :
                    /\ m \in Range(cfg.batches[i].metrics)
                    /\ \A j \in 1..(i - 1) : m \notin Range(cfg.batches[j].metrics)]
IsProbeColumn(batch, c) ==
    /\ IsPrefixOf(batch.probe_prefix, c)
    /\ \E p \in Range(batch.probes) : IsSubstringOf(p, c)
ProbeColumnsOf(df, batch) == {c \in Range(df.columns) : IsProbeColumn(batch, c)}
Cell(df, i, c) == df.rows[i][CHOOSE j \in 1..Len(df.columns) : df.columns[j] = c]
\* 1 where some probe column of the batch is positive at row i
LabelAt(df, batch, i) ==
    IF \E c \in ProbeColumnsOf(df, batch) : Cell(df, i, c) > 0 THEN 1 ELSE 0

\* C2: a Signal that make_signal returns has time.values, values and labels.values of
\* one length, the number of rows of the table, for every table (empty ones and ones
\* without probe columns included).
C2_EqualLengths ==
    (output.fn = "make_signal" /\ output.res.exc = "none") =>
        /\ Len(output.res.val.time.values) = Len(input.df.rows)
        /\ Len(output.res.val.values) = Len(input.df.rows)
        /\ Len(output.res.val.labels.values) = Len(input.df.rows)

\* C2 witness: a Signal of a two-row table of two columns none of which is a probe column
C2_Witness ==
    /\ output.fn = "make_signal" /\ output.res.exc = "none"
    /\ Len(input.df.rows) = 2
    /\ input.df.columns = <<index, cycles>>
    /\ ProbeColumnsOf(input.df, FirstDeclaring(input.device_cfg, input.metric)) = {}
    /\ Len(output.res.val.labels.values) = 2

\* C3: derive_labels returns one label in {0,1} per row, 1 exactly where some selected
\* probe column is strictly positive; without a selected column it returns all zeros; it
\* raises only when no batch declares the metric.
C3_Labels ==
    output.fn = "derive_labels" =>
        LET df == input.df
            cfg == input.device_cfg
        IN IF ~Declares(cfg, input.metric) THEN output.res.exc = "ValueError"
           ELSE /\ output.res.exc = "none"
                /\ Len(output.res.val) = Len(df.rows)
                /\ \A i \in 1..Len(df.rows) :
                      /\ output.res.val[i] \in {0, 1}
                      /\ output.res.val[i] = 1 <=>
                            \E c \in ProbeColumnsOf(df, FirstDeclaring(cfg, input.metric)) :
                                Cell(df, i, c) > 0
                /\ ProbeColumnsOf(df, FirstDeclaring(cfg, input.metric)) = {} =>
                      \A i \in 1..Len(df.rows) : output.res.val[i] = 0

\* C3 witness: a row whose probe column is 0 or negative gets 0 next to a row that gets 1
C3_Witness ==
    /\ output.fn = "derive_labels" /\ output.res.exc = "none"
    /\ input.device_cfg = CfgD1 /\ input.metric = cycles
    /\ input.df.columns = <<index, cycles, pmc_core0>>
    /\ Len(input.df.rows) = 2
    /\ input.df.rows[1][3] = 1 /\ input.df.rows[2][3] = -1
    /\ output.res.val = <<1, 0>>

\* C4: select_probe_columns returns, in table column order, exactly the columns that
\* start with the probe_prefix of the metric's batch and contain one of its probes.
C4_ProbeColumns ==
    (output.fn = "select_probe_columns" /\ output.res.exc = "none") =>
        LET batch == FirstDeclaring(input.device_cfg, input.metric)
        IN output.res.val = SelectSeq(input.df.columns, LAMBDA c : IsProbeColumn(batch, c))

\* C4 witness: pmc_core0 is selected for b1 and x_core0, a probe column of b2 only, is not
C4_Witness ==
    /\ output.fn = "select_probe_columns" /\ output.res.exc = "none"
    /\ input.device_cfg = CfgDup /\ input.metric = cycles
    /\ input.df.columns = <<index, pmc_core0, x_core0>>
    /\ output.res.val = <<pmc_core0>>

\* C5: find_metric_batch returns the first batch in declared order that declares the
\* metric, and a Signal carries that batch as labels.batch with labels.values derived from
\* that same batch's probe_prefix and probes.
C5_FirstBatch ==
    /\ output.fn = "find_metric_batch" =>
          IF Declares(input.device_cfg, input.metric)
          THEN output.res = Ok(FirstDeclaring(input.device_cfg, input.metric).name)
          ELSE output.res.exc = "ValueError"
    /\ (output.fn = "make_signal" /\ output.res.exc = "none") =>
          LET batch == FirstDeclaring(input.device_cfg, input.metric)
          IN /\ output.res.val.labels.batch = batch.name
             /\ output.res.val.labels.values =
                    [i \in 1..Len(input.df.rows) |-> LabelAt(input.df, batch, i)]

\* C5 witness: cycles is declared by b1 and b2; the Signal names b1 and is labelled by b1's
\* probe column, which b2 would not select
C5_Witness ==
    /\ output.fn = "make_signal" /\ output.res.exc = "none"
    /\ input.device_cfg = CfgDup /\ input.metric = cycles
    /\ input.df.columns = <<index, cycles, pmc_core0>>
    /\ output.res.val.labels.batch = b1
    /\ output.res.val.labels.values = <<1, 0>>

-----------------------------------------------------------------------------
(* Properties of the server (checked under Spec) *)

Pass == <<0, "none">>

\* the failure the validation order prescribes for a request against the registry
Failure(req) ==
    IF req.device \notin DOMAIN DEVICE_REGISTRY THEN <<404, "Device not found">>
    ELSE IF req.workload \notin DOMAIN DEVICE_REGISTRY[req.device].workloads
    THEN <<404, "Workload not found">>
    ELSE IF \A i \in DOMAIN DEVICE_REGISTRY[req.device].workloads[req.workload].runs :
                DEVICE_REGISTRY[req.device].workloads[req.workload].runs[i] # req.run
    THEN <<404, "Run not found">>
    ELSE IF \A i \in DOMAIN DEVICE_REGISTRY[req.device].metrics :
                DEVICE_REGISTRY[req.device].metrics[i] # req.metric
    THEN <<400, "Metric not valid for device">>
    ELSE Pass

\* the requests of a payload that fail validation
Failing(payload) == {i \in DOMAIN payload : Failure(payload[i]) # Pass}
First(S) == CHOOSE i \in S : \A j \in S : i <= j

\* C1: get_signal, and get_signals for each request it processes, check device, workload,
\* run and metric in this order and answer with the failure of the first check that fails.
C1_ValidationOrder ==
    /\ resp.op = "get_signal" =>
          IF Failure(resp.req) # Pass
          THEN <<resp.status, resp.detail>> = Failure(resp.req)
          ELSE resp.status \notin {400, 404}
    /\ resp.op = "get_signals" =>
          IF resp.status \in {400, 404}
          THEN /\ Failing(resp.req) # {}
               /\ <<resp.status, resp.detail>> = Failure(resp.req[First(Failing(resp.req))])
          ELSE /\ resp.status \in {200, 500}
               /\ resp.status = 200 => Failing(resp.req) = {}

\* C1 witness: D1 is registered, the workload and the run are unknown and the metric is
\* invalid: the answer is the workload's 404
C1_Witness ==
    /\ resp.op = "get_signal"
    /\ resp.req = Request(D1, W2, experiments_master_log, pmc_core0)
    /\ D1 \in DOMAIN DEVICE_REGISTRY
    /\ W1 \in DOMAIN DEVICE_REGISTRY[D1].workloads
    /\ resp.status = 404 /\ resp.detail = "Workload not found"

\* the config of a registered device declares a (non-empty) name other than the device's
DeclaresOtherName(device) ==
    LET name == DEVICE_REGISTRY[device].config.name
    IN name # None /\ name # EmptyStr /\ name # device

\* C6: a request that passes the four checks and whose device config declares another
\* device name ends in an internal error (500, not an HTTPException) without a Signal;
\* a config without a name, or with the requested name, never fails that check.
C6_ConfigMismatch ==
    /\ (resp.op = "get_signal" /\ Failure(resp.req) = Pass) =>
          IF DeclaresOtherName(resp.req.device)
          THEN resp.status = 500 /\ resp.body = <<>>
          ELSE resp.detail # "RuntimeError"
    /\ (resp.op = "get_signals" /\ Failing(resp.req) = {}) =>
          IF \E i \in DOMAIN resp.req : DeclaresOtherName(resp.req[i].device)
          THEN resp.status = 500 /\ resp.body = <<>>
          ELSE resp.detail # "RuntimeError"

\* C6 witness: D2 holds a config that names D1; a valid request for D2 raises RuntimeError
C6_Witness ==
    /\ resp.op = "get_signal"
    /\ resp.req.device = D2
    /\ Failure(resp.req) = Pass
    /\ DEVICE_REGISTRY[D2].config.name = D1
    /\ resp.status = 500 /\ resp.detail = "RuntimeError"

\* C7: after a completed rebuild, and after any later change of the tree, the registered
\* devices are exactly the directories of the data root that held a device_config.json at
\* the time of that rebuild.
C7_RegisteredDevices ==
    /\ (hist.outcome = "done" /\ hist.steady) => DOMAIN DEVICE_REGISTRY = hist.at
    /\ (hist.outcome = "done" /\ hist.clean) =>
          DOMAIN DEVICE_REGISTRY = {d \in DirNames : fs[d].kind = "dir" /\ fs[d].has_cfg}

\* C7 witness: a rebuild completed with a directory without config present and unregistered,
\* and with a device that the previous registry held and that is gone now
C7_Witness ==
    /\ hist.outcome = "done" /\ hist.clean
    /\ \E d \in DirNames : fs[d].kind = "dir" /\ ~fs[d].has_cfg /\ d \notin DOMAIN DEVICE_REGISTRY
    /\ \E d \in hist.pre : d \notin DOMAIN DEVICE_REGISTRY

\* C8: no run list of the registry holds the master log's run name; list_runs never
\* returns it and get_signal for it answers 404, "Run not found" when the device and the
\* workload are registered.
C8_MasterLogExcluded ==
    /\ \A d \in DOMAIN DEVICE_REGISTRY : \A w \in DOMAIN DEVICE_REGISTRY[d].workloads :
          experiments_master_log \notin Range(DEVICE_REGISTRY[d].workloads[w].runs)
    /\ (resp.op = "list_runs" /\ resp.status = 200) =>
          experiments_master_log \notin Range(resp.body)
    /\ (resp.op = "get_signal" /\ resp.req.run = experiments_master_log) =>
          /\ resp.status = 404
          /\ (/\ resp.req.device \in DOMAIN DEVICE_REGISTRY
              /\ resp.req.workload \in DOMAIN DEVICE_REGISTRY[resp.req.device].workloads)
                => resp.detail = "Run not found"

\* C8 witness: experiments_master_log.csv lies in the workload directory of a registered
\* device and the request for it is answered "Run not found"
C8_Witness ==
    /\ resp.op = "get_signal"
    /\ resp.req.run = experiments_master_log
    /\ resp.detail = "Run not found"
    /\ fs[resp.req.device].kind = "dir"
    /\ FileName(experiments_master_log, csv) \in DOMAIN fs[resp.req.device].sub[resp.req.workload].files

\* what the idempotence statement compares: devices, metric lists, workload -> runs
RegistryView(reg) == [d \in DOMAIN reg |-> [metrics |-> reg[d].metrics, workloads |-> reg[d].workloads]]

\* C9: two consecutive completed rebuilds of an unchanged tree yield the same device set,
\* metric lists and workload -> runs mapping.
C9_RebuildIdempotent ==
    (hist.prev.valid /\ hist.last.valid) =>
        RegistryView(hist.prev.reg) = RegistryView(hist.last.reg)

\* C9 witness: two rebuilds in a row registered D1 with a workload of two runs
C9_Witness ==
    /\ hist.prev.valid /\ hist.last.valid
    /\ D1 \in DOMAIN hist.last.reg
    /\ W1 \in DOMAIN hist.last.reg[D1].workloads
    /\ Len(hist.last.reg[D1].workloads[W1].runs) = 2
    /\ Len(hist.last.reg[D1].metrics) = 2

\* C10: a request served while load_registry runs never answers "Device not found" for a
\* device that the registry held before the rebuild and that the rebuild registers again.
C10_AtomicRebuild ==
    ~ (/\ pc = "loading" /\ hist.clean
       /\ resp.op = "get_signal" /\ resp.during
       /\ resp.req.device \in hist.pre
       /\ \A d \in DirNames : (fs[d].kind = "dir" /\ fs[d].has_cfg) => fs[d].cfg.has_batches
       /\ fs[resp.req.device].kind = "dir" /\ fs[resp.req.device].has_cfg
       /\ resp.status = 404 /\ resp.detail = "Device not found")

-----------------------------------------------------------------------------
(* Properties of repeated requests (checked under SpecRepeat) *)

-----------------------------------------------------------------------------
(* Frame of the endpoints (checked under Spec) *)

\* C12: only load_registry changes DEVICE_REGISTRY: every step that serves a list_devices,
\* list_metrics, list_workloads, list_runs, get_signal or get_signals request, whether it
\* succeeds or fails with 404, 400 or 500, leaves the registry as it was, and a step that
\* changes it is a step of load_registry.
C12_OnlyRebuildWrites ==
    [][/\ resp'.op # "none" => DEVICE_REGISTRY' = DEVICE_REGISTRY
       /\ DEVICE_REGISTRY' # DEVICE_REGISTRY =>
             (pc = "idle" /\ pc' = "loading") \/ (pc = "loading" /\ pc' = "loading")]_vars

\* C12 witness: a request for a registered device has failed with the config mismatch
\* (500) and the registry still holds its devices
C12_Witness ==
    /\ resp.op = "get_signal"
    /\ resp.status = 500 /\ resp.detail = "RuntimeError"
    /\ resp.req.device \in DOMAIN DEVICE_REGISTRY
    /\ hist.outcome = "done" /\ hist.clean
    /\ DOMAIN DEVICE_REGISTRY = {d \in DirNames : fs[d].kind = "dir" /\ fs[d].has_cfg}

-----------------------------------------------------------------------------
(* Properties of the ratio computation (checked under SpecCalc) *)

SameLength(a, b) == Len(a.values) = Len(b.values)

\* C14: for value series of equal length the ratio has, at each position, the quotient
\* of the two values when the denominator is not zero and nan when it is (x/0 and 0/0);
\* no element is infinite and the division raises nothing.
C14_RatioValues ==
    (output.fn = "ComputeRatio" /\ SameLength(input.numerator_signal, input.denominator_signal)) =>
        LET n == input.numerator_signal.values
            d == input.denominator_signal.values
        IN /\ output.res.exc = "none"
           /\ Len(output.res.val.y) = Len(n)
           /\ \A i \in 1..Len(n) :
                 LET y == output.res.val.y[i]
                 IN /\ y.kind \in {"num", "nan"}
                    /\ d[i] = 0 => y = nan
                    /\ d[i] # 0 => /\ y.kind = "num"
                                   /\ y.den > 0
                                   /\ y.num * d[i] = n[i] * y.den

\* C14 witness: 1/0 and 0/0 next to each other
C14_Witness ==
    /\ output.fn = "ComputeRatio" /\ output.res.exc = "none"
    /\ input.numerator_signal.values = <<1, 0>>
    /\ input.denominator_signal.values = <<0, 0>>
    /\ output.res.val.y = <<nan, nan>>

-----------------------------------------------------------------------------
(* Properties of the Derived Ratios page (checked under SpecRatio and SpecSession) *)

\* the call has a device, a workload and a run, and the same metric twice
SameMetrics(a) ==
    /\ ~Falsy(a.device_sel) /\ ~Falsy(a.workload_sel) /\ ~Falsy(a.run_sel)
    /\ a.numerator_m = a.denominator_m

\* C13: a call of build_ratio_data whose numerator metric equals its denominator metric
\* returns no ratio, fetches no signal and does not look its key up in ratio_cache; no
\* ratio_cache entry and no plotted ratio has the same metric twice.
C13_SameMetricsRejected ==
    /\ (script.log.args # Nothing /\ SameMetrics(script.log.args[1])) =>
          /\ script.log.returned /\ script.log.ret = Nothing
          /\ script.log.fetched = 0
          /\ ~script.log.read
    /\ \A k \in DOMAIN session_state.ratio_cache : k[4] # k[5]
    /\ \A id \in DOMAIN session_state.ratios :
          session_state.ratios[id].numerator # session_state.ratios[id].denominator
    /\ \A id \in DOMAIN script.new_ratios :
          script.new_ratios[id].numerator # script.new_ratios[id].denominator

\* C13 witness: cycles / cycles was asked for while another ratio was cached and the
\* backend was serving, and nothing was plotted for it
C13_Witness ==
    /\ script.handler = "none"
    /\ script.log.args # Nothing /\ SameMetrics(script.log.args[1])
    /\ script.log.returned
    /\ hist.phase = "serving" /\ D1 \in DOMAIN DEVICE_REGISTRY
    /\ DOMAIN session_state.ratio_cache # {}
    /\ DOMAIN session_state.ratios = {}

\* a call of build_ratio_data starts and finds its key in ratio_cache
CacheHit ==
    /\ script.handler # "none"
    /\ script.numerator_signal = Nothing
    /\ cache_key(Head(script.queue)) \in DOMAIN session_state.ratio_cache
    /\ script'.log # script.log
    /\ script'.log.args = Some(Head(script.queue))

\* C16: a call of build_ratio_data whose key is in ratio_cache fetches no signal and
\* returns the x, y and labels stored when the key was first inserted, whatever has
\* happened to the backend since; the entry it finds was computed for the same device,
\* workload, run, numerator and denominator.
C16_CacheHit ==
    [][CacheHit =>
          LET a == Head(script.queue)
              k == cache_key(a)
              c == session_state.ratio_cache[k]
          IN /\ script'.log.fetched = 0
             /\ script'.log.returned
             /\ script'.log.ret # Nothing
             /\ k \in DOMAIN script.first
             /\ script'.log.ret[1].x = script.first[k].x
             /\ script'.log.ret[1].y = script.first[k].y
             /\ script'.log.ret[1].labels = script.first[k].labels
             /\ session_state'.ratio_cache = session_state.ratio_cache
             /\ <<c.device, c.workload, c.run, c.numerator, c.denominator>> =
                   <<a.device_sel, a.workload_sel, a.run_sel, a.numerator_m, a.denominator_m>>
      ]_vars

\* C16 witness: cycles / instructions was served from the cache, as computed from the
\* scenario table, after the data directory of D1 had been replaced
C16_Witness ==
    /\ script.log.args # Nothing
    /\ script.log.fetched = 0 /\ script.log.read /\ script.log.returned
    /\ script.log.ret # Nothing
    /\ script.log.ret[1].numerator = cycles
    /\ script.log.ret[1].y = <<Fraction(2, 1), Fraction(5, 2)>>
    /\ script.log.ret[1].labels = <<1, 0>>
    /\ hist.phase = "serving"
    /\ fs[D1].kind = "dir" /\ fs[D1].cfg = CfgDup
    /\ D1 \in DOMAIN DEVICE_REGISTRY /\ DEVICE_REGISTRY[D1].config = CfgDup

\* the page is opened in a new session
SessionReset == session_state' = NewSessionState /\ script' = NoScript

\* C17: a step other than a session reset leaves every key of ratio_cache in the cache
\* with its value, whichever button was clicked and whatever the backend did; a step
\* that adds to the cache is the end of a call of build_ratio_data that fetched both
\* signals and returned a ratio, and it adds the key of that call only.
C17_CacheKept ==
    [][~SessionReset =>
          /\ \A k \in DOMAIN session_state.ratio_cache :
                /\ k \in DOMAIN session_state'.ratio_cache
                /\ session_state'.ratio_cache[k] = session_state.ratio_cache[k]
          /\ DOMAIN session_state'.ratio_cache # DOMAIN session_state.ratio_cache =>
                /\ script'.log.args # Nothing
                /\ script'.log.fetched = 2
                /\ script'.log.returned
                /\ script'.log.ret # Nothing
                /\ DOMAIN session_state'.ratio_cache =
                      DOMAIN session_state.ratio_cache \cup {cache_key(script'.log.args[1])}
      ]_vars

\* C17 witness: two ratios are cached; since then an entry was added and deleted, the
\* plots were cleared and a reload has completed
C17_Witness ==
    /\ Cardinality(DOMAIN session_state.ratio_cache) = 2
    /\ DOMAIN session_state.ratios = {}
    /\ session_state.ratio_entry_counter = 2
    /\ Len(session_state.ratio_search_entries) = 1
    /\ script.handler = "none" /\ script.log = NoLog
    /\ hist.outcome = "done" /\ hist.pre # {}

-----------------------------------------------------------------------------
(* Properties of signal_id (checked under SpecIds) *)

\* C18: two successfully resolved Signals with the same signal_id have the same device,
\* workload, run and metric, also when a name contains "::".
C18_UniqueSignalId ==
    (/\ output.fn = "make_signal_twice"
     /\ output.res.first.exc = "none" /\ output.res.second.exc = "none"
     /\ output.res.first.val.signal_id = output.res.second.val.signal_id) =>
        /\ input.first.device = input.second.device
        /\ input.first.workload = input.second.workload
        /\ input.first.run = input.second.run
        /\ input.first.metric = input.second.metric

-----------------------------------------------------------------------------
(* Properties of the registered metrics (checked under Spec) *)

\* the metrics the batches of a config declare
DeclaredMetrics(config) == UNION {Range(config.batches[i].metrics) : i \in DOMAIN config.batches}

StrictlyAscending(list) == \A i \in 1..(Len(list) - 1) : StrLess(list[i], list[i + 1])

\* C19: the metrics list of every registry entry is strictly ascending in lexicographic
\* order and holds exactly the metrics declared by the batches of the device's config;
\* list_metrics answers with this list.
C19_MetricsList ==
    /\ \A d \in DOMAIN DEVICE_REGISTRY :
          /\ StrictlyAscending(DEVICE_REGISTRY[d].metrics)
          /\ Range(DEVICE_REGISTRY[d].metrics) = DeclaredMetrics(DEVICE_REGISTRY[d].config)
    /\ (resp.op = "list_metrics" /\ resp.status = 200) =>
          /\ resp.req[1] \in DOMAIN DEVICE_REGISTRY
          /\ resp.body = DEVICE_REGISTRY[resp.req[1]].metrics

\* C19 witness: after a completed rebuild D1's config declares cycles in both batches and
\* instr in the second, declared before cycles; list_metrics answers cycles, instr
C19_Witness ==
    /\ pc = "idle" /\ hist.outcome = "done"
    /\ D1 \in DOMAIN DEVICE_REGISTRY
    /\ DEVICE_REGISTRY[D1].config = CfgDup
    /\ resp.op = "list_metrics" /\ resp.req = <<D1>>
    /\ resp.body = <<cycles, instructions>>

-----------------------------------------------------------------------------
(* Properties of the resolved values (checked under SpecPipeline) *)

\* C20: a Signal that make_signal returns has, at every row i of the table and in table
\* order, the cell of the requested metric's column in values and the cell of the index
\* column in time.values; on the scenario table, cycles resolves to values 100, 200 and
\* labels 1, 0, not to the probe column's 5, 0.
C20_ValuesFromMetricColumn ==
    /\ (output.fn = "make_signal" /\ output.res.exc = "none") =>
          /\ Len(output.res.val.values) = Len(input.df.rows)
          /\ Len(output.res.val.time.values) = Len(input.df.rows)
          /\ \A i \in 1..Len(input.df.rows) :
                /\ output.res.val.values[i] = Cell(input.df, i, input.metric)
                /\ output.res.val.time.values[i] = Cell(input.df, i, index)
    /\ LET scenario == make_signal(TScenario, CfgD1, D1, W1, R1, cycles, 1)
       IN /\ scenario.exc = "none"
          /\ scenario.val.values = <<100, 200>>
          /\ scenario.val.time.values = <<0, 1>>
          /\ scenario.val.labels.values = <<1, 0>>

\* C20 witness: the metric column holds 1, -1 and the probe column of its batch 0, 1
C20_Witness ==
    /\ output.fn = "make_signal" /\ output.res.exc = "none"
    /\ input.df.columns = <<index, cycles, pmc_core0>>
    /\ input.metric = cycles
    /\ input.device_cfg = CfgD1
    /\ input.df.rows = << <<0, 1, 0>>, <<1, -1, 1>> >>
    /\ output.res.val.values = <<1, -1>>
    /\ output.res.val.time.values = <<0, 1>>
    /\ output.res.val.labels.values = <<0, 1>>

-----------------------------------------------------------------------------
(* Properties of a failed rebuild (checked under Spec) *)

\* C21: after a reload whose load_registry raised, the registry holds the devices it held
\* before that reload (the least that "equals the complete pre-rebuild registry" requires):
\* it is not emptied and does not hold only the devices processed before the failure.
C21_FailedRebuildKeepsRegistry ==
    (pc = "idle" /\ hist.phase = "serving" /\ hist.outcome = "failed") =>
        DOMAIN DEVICE_REGISTRY = hist.pre

-----------------------------------------------------------------------------
(* Properties of the metric's batch (checked under Spec) *)

\* C22: every metric in the metrics list of a registry entry is declared by a batch of
\* that entry's config, so find_metric_batch finds a batch for it; no get_signal or
\* get_signals ends with find_metric_batch's ValueError.
C22_MetricHasBatch ==
    /\ \A d \in DOMAIN DEVICE_REGISTRY :
          \A i \in DOMAIN DEVICE_REGISTRY[d].metrics :
             /\ Declares(DEVICE_REGISTRY[d].config, DEVICE_REGISTRY[d].metrics[i])
             /\ find_metric_batch(DEVICE_REGISTRY[d].config, DEVICE_REGISTRY[d].metrics[i]).exc = "none"
    /\ resp.op \in {"get_signal", "get_signals"} =>
          ~(resp.status = 500 /\ resp.detail = "ValueError")

\* C22 witness: a request for cycles passed the four checks against a config with two
\* batches and was labelled from the first of them
C22_Witness ==
    /\ resp.op = "get_signal" /\ resp.status = 200
    /\ resp.req.metric = cycles
    /\ DEVICE_REGISTRY[resp.req.device].config = CfgDup
    /\ resp.body.labels.batch = b1
    /\ resp.body.labels.values = <<1, 0, 0>>

-----------------------------------------------------------------------------
(* Properties of the batch resolve (checked under Spec) *)

\* what get_signal answers to each request of a payload
Single(payload) == [i \in DOMAIN payload |-> get_signal(payload[i])]
FailingSingle(payload) == {i \in DOMAIN payload : Single(payload)[i].status # 200}

\* C23: when get_signal resolves every request of the payload, get_signals answers with
\* one Signal per request, in request order, each the Signal get_signal returns; when it
\* fails for some request, get_signals fails as get_signal does for the first such request
\* and its response holds no Signal.
C23_BatchAllOrNothing ==
    resp.op = "get_signals" =>
        IF FailingSingle(resp.req) = {}
        THEN /\ resp.status = 200
             /\ Len(resp.body.signals) = Len(resp.req)
             /\ \A i \in DOMAIN resp.req : resp.body.signals[i] = Single(resp.req)[i].body
        ELSE LET f == First(FailingSingle(resp.req))
             IN /\ resp.status # 200
                /\ resp.status = Single(resp.req)[f].status
                /\ resp.detail = Single(resp.req)[f].detail

\* C23 witness: the first request of the payload resolves, the second does not, and the
\* response is the second's failure
C23_Witness ==
    /\ resp.op = "get_signals"
    /\ Len(resp.req) = 2
    /\ get_signal(resp.req[1]).status = 200
    /\ get_signal(resp.req[2]).status = 404
    /\ resp.status = 404

-----------------------------------------------------------------------------
(* Properties of the registry between rebuilds (checked under Spec) *)

\* the device a response is about
DeviceOf(r) == IF r.op = "get_signal" THEN r.req.device ELSE r.req[1]

\* C24: what a request finds is decided by the registry the last completed rebuild left:
\* list_devices lists exactly the devices that rebuild registered, and get_signal,
\* list_metrics, list_workloads and list_runs answer "Device not found" exactly for the
\* devices it did not register, whatever the tree holds now; so a device added since is
\* not found before a reload and is found by every request after the reload has completed.
C24_LastCompletedRebuild ==
    /\ resp.op = "list_devices" => Range(resp.body) = hist.done
    /\ resp.op \in {"get_signal", "list_metrics", "list_workloads", "list_runs"} =>
          ((resp.status = 404 /\ resp.detail = "Device not found") <=> DeviceOf(resp) \notin hist.done)

-----------------------------------------------------------------------------
(* Properties of the stored ratios (checked under SpecRatio) *)

Aligned(r) == Len(r.x) = Len(r.y) /\ Len(r.y) = Len(r.labels)

\* C25: every entry of ratio_cache and every plotted ratio has as many x as y as labels,
\* also when the run's file or the registry changed between the two fetches of the build.
C25_AlignedEntries ==
    /\ \A k \in DOMAIN session_state.ratio_cache : Aligned(session_state.ratio_cache[k])
    /\ \A id \in DOMAIN session_state.ratios : Aligned(session_state.ratios[id])

-----------------------------------------------------------------------------
(* Properties of the attack shading (checked under SpecShading) *)

Shaded == output.fn \in {"render_signal_plot", "single_signal", "ratio_plot"}

\* position i (counted from 0) lies in the rectangle [x0, x1)
Covers(r, i) == r.x0 <= i /\ i < r.x1

\* C26: the rectangles the scan emits are the maximal runs of 1-labels: a position lies
\* in a rectangle exactly when its label is 1; every rectangle is non-empty and inside
\* the sequence; each starts after the end of the one before, with a 0 between them; a
\* run that reaches the end is closed at len(labels); no 1 gives no rectangle.
C26_MaximalRuns ==
    Shaded =>
        LET labels == input.labels
            rects == output.res
        IN /\ \A i \in 0..(Len(labels) - 1) :
                 (labels[i + 1] = 1) <=> (\E k \in DOMAIN rects : Covers(rects[k], i))
           /\ \A k \in DOMAIN rects :
                 0 <= rects[k].x0 /\ rects[k].x0 < rects[k].x1 /\ rects[k].x1 <= Len(labels)
           /\ \A k \in 1..(Len(rects) - 1) : rects[k].x1 < rects[k + 1].x0
           /\ (Len(labels) > 0 /\ labels[Len(labels)] = 1) =>
                 (rects # <<>> /\ rects[Len(rects)].x1 = Len(labels))
           /\ (\A i \in DOMAIN labels : labels[i] = 0) => rects = <<>>

\* C26 witness: a run in the middle and a run that reaches the end
C26_Witness ==
    /\ output.fn = "ratio_plot"
    /\ input.labels = <<0, 1, 1, 0, 1>>
    /\ output.res = << [x0 |-> 1, x1 |-> 3], [x0 |-> 4, x1 |-> 5] >>

====
